---- MODULE Spec2Model ----
(***************************************************************************)
(* Model of the RNC (non-conformance report) application                   *)
(* src/app_v27_clean_logo_fix.py: the SQLite store (tables inspecoes,      *)
(* fotos, peps, settings), the report-number allocator, the File / Close / *)
(* Reopen handlers, the CSV bulk import and the Streamlit sessions that    *)
(* call them.                                                              *)
(*                                                                         *)
(* Text is modelled as a sequence of one-character strings, so that        *)
(* str.strip(), SQL LIKE, re.match, int() and the "03d" format are         *)
(* computed character by character.  SQL NULL of a text column that is     *)
(* modelled as a sequence is the empty sequence (every read site of        *)
(* rnc_num treats NULL and '' alike: "if not val", fillna(""));  NULL of a *)
(* text column modelled as a string is the string "NULL"; NULL of a        *)
(* timestamp is 0 (the clock starts at 1).                                 *)
(***************************************************************************)
EXTENDS Integers, Sequences, FiniteSets, TLC

VARIABLES
    inspecoes,    \* table inspecoes: sequence of rows, row i has id = i
    fotos,        \* table fotos: sequence of rows, row i has id = i
    peps,         \* table peps: sequence of codes, row i has id = i
    logo,         \* settings row 'logo': its blob, "NULL" when no row
    is_quality,   \* st.session_state.is_quality, per session
    pc,           \* per session: where its running handler stands
    form,         \* per session: the locals of its running handler
    view,         \* per session: the row its browser shows (id, status)
    now,          \* datetime.now()
    pep_n         \* per session: n, what add_peps_bulk last returned to its page

storeVars == <<inspecoes, fotos>>
cfgVars   == <<peps, logo, pep_n>>
sessVars  == <<is_quality, pc, form, view>>
vars      == <<inspecoes, fotos, peps, logo, is_quality, pc, form, view, now,
               pep_n>>

-----------------------------------------------------------------------------
(* Bounds of the model. *)

MaxReports == 4      \* rows of inspecoes
MaxLifeReports == 2  \* rows of inspecoes, where reports are closed and reopened
MaxFotos   == 3      \* rows of fotos
MaxLifeFotos == 2    \* rows of fotos, where reports are closed and reopened
MaxImgs    == 2      \* files of one upload
MaxRows    == 2      \* rows of one imported CSV
MaxClock   == 3      \* readings of datetime.now()
BaseLen    == 2      \* rows of the store the sequential filing starts from, at most
MaxSeqFiles == 3     \* filings run one after another
MaxTripReports == 4  \* rows of inspecoes, where the store is exported
MaxCodes   == 2      \* cells of the column code of an uploaded CSV
MaxPeps    == 3      \* rows of peps a call may start from
MaxAuthReports == 1  \* rows of inspecoes, where sessions change profile
MaxAuthFotos == 1    \* rows of fotos, where sessions change profile

Sessions == {"s1", "s2"}
Years    == {2024, 2025}
Blobs    == {"b1", "b2"}

NULL   == "NULL"
NoTime == 0
NoNum  == <<>>

-----------------------------------------------------------------------------
(* Text. *)

Digits == <<"0", "1", "2", "3", "4", "5", "6", "7", "8", "9">>

IsDigit(c) == \E i \in 1..10 : Digits[i] = c

DigitVal(c) == (CHOOSE i \in 1..10 : Digits[i] = c) - 1

IsSpace(c) == c = " "

\* int(s) of a non-empty run of digits
RECURSIVE StrToInt(_)
StrToInt(s) ==
    IF s = <<>> THEN 0
    ELSE 10 * StrToInt(SubSeq(s, 1, Len(s) - 1)) + DigitVal(s[Len(s)])

\* str(n), n >= 0
RECURSIVE IntToStr(_)
IntToStr(n) ==
    IF n < 10 THEN <<Digits[n + 1]>>
    ELSE IntToStr(n \div 10) \o <<Digits[(n % 10) + 1]>>

\* f"{n:03d}": zero-padded to at least 3 digits
RECURSIVE ZeroPad(_, _)
ZeroPad(s, w) == IF Len(s) >= w THEN s ELSE ZeroPad(<<"0">> \o s, w)

Fmt03d(n) == ZeroPad(IntToStr(n), 3)

\* str.strip()
RECURSIVE LStrip(_)
LStrip(s) == IF s # <<>> /\ IsSpace(s[1]) THEN LStrip(Tail(s)) ELSE s

RECURSIVE RStrip(_)
RStrip(s) ==
    IF s # <<>> /\ IsSpace(s[Len(s)]) THEN RStrip(SubSeq(s, 1, Len(s) - 1)) ELSE s

Strip(s) == LStrip(RStrip(s))

StartsWith(s, p) == Len(s) >= Len(p) /\ SubSeq(s, 1, Len(p)) = p

\* f"{year}-"
Prefix(year) == IntToStr(year) \o <<"-">>

\* SQL: rnc_num LIKE '{year}-%'  (NULL LIKE ... is not true)
LikePrefix(val, year) == val # NoNum /\ StartsWith(val, Prefix(year))

\* re.match(rf"^{year}-(\d+)$", s): group(1), or <<>> when there is no match
ReGroup(s, year) ==
    LET p    == Prefix(year)
        rest == SubSeq(s, Len(p) + 1, Len(s))
    IN  IF StartsWith(s, p) /\ rest # <<>> /\ \A i \in 1..Len(rest) : IsDigit(rest[i])
        THEN rest ELSE <<>>

SeqMax(S) == CHOOSE m \in S : \A x \in S : x <= m

-----------------------------------------------------------------------------
(* Identifier allocator. *)

\* a faulty variant: the SELECT has lost its LIKE filter
RowsAll(tbl, year) == {i \in 1..Len(tbl) : tbl[i].rnc_num # NoNum}

\* the rows the SELECT of next_rnc_num_for_date returns
RowsLike(tbl, year) == {i \in 1..Len(tbl) : LikePrefix(tbl[i].rnc_num, year)}

\* the list seqs of next_rnc_num_for_date, as a set
Seqs(tbl, year) ==
    {StrToInt(ReGroup(Strip(tbl[i].rnc_num), year)) :
        i \in {j \in RowsLike(tbl, year) :
                 /\ tbl[j].rnc_num # NoNum
                 /\ ReGroup(Strip(tbl[j].rnc_num), year) # <<>>}}

\* a faulty variant: the count of matching rows instead of the maximum suffix
NextByCount(tbl, year) ==
    Prefix(year) \o Fmt03d(Cardinality(Seqs(tbl, year)) + 1)

\* a faulty variant: the maximum suffix is returned without the increment
NextNoIncrement(tbl, year) ==
    LET seqs == Seqs(tbl, year)
        nxt  == IF seqs # {} THEN SeqMax(seqs) ELSE 1
    IN  Prefix(year) \o Fmt03d(nxt)

next_rnc_num_for_date(tbl, year) ==
    LET seqs == Seqs(tbl, year)
        nxt  == IF seqs # {} THEN SeqMax(seqs) + 1 ELSE 1
    IN  Prefix(year) \o Fmt03d(nxt)

-----------------------------------------------------------------------------
(* Report store. *)

\* a row of inspecoes (the descriptive columns are represented by titulo)
\* data keeps the year of the date, 0 for NULL
Row(num, data, titulo, status) ==
    [rnc_num |-> num, data |-> data, titulo |-> titulo, status |-> status,
     encerrada_em |-> NoTime, encerrada_por |-> NULL,
     encerramento_obs |-> NULL, eficacia |-> NULL,
     reaberta_em |-> NoTime, reaberta_por |-> NULL, reabertura_motivo |-> NULL]

\* a row of fotos (filename and mimetype travel with the blob)
Foto(iid, blob, tipo) == [inspecao_id |-> iid, blob |-> blob, tipo |-> tipo]

\* the INSERTs of fotos for the first n images
RECURSIVE FotoRows(_, _, _, _)
FotoRows(iid, images, tipo, n) ==
    IF n = 0 THEN <<>>
    ELSE Append(FotoRows(iid, images, tipo, n - 1), Foto(iid, images[n], tipo))

\* outcome of one transaction: 0 = every statement ran and it committed,
\* j >= 1 = the INSERT of image j raised (disk error, database is locked)
Outcomes(images) == 0..Len(images)

\* a faulty variant: every statement is committed on its own (no rollback)
insert_autocommit(tbl, ft, rec, images, fail) ==
    LET n == IF fail = 0 THEN Len(images) ELSE fail - 1
    IN  [inspecoes |-> Append(tbl, rec),
         fotos     |-> ft \o FotoRows(Len(tbl) + 1, images, "abertura", n)]

\* a faulty variant: the INSERT of a number that is stored already is refused
\* (rnc_num declared UNIQUE)
insert_unique(tbl, ft, rec, images, fail) ==
    IF fail = 0 /\ \A i \in 1..Len(tbl) : tbl[i].rnc_num # rec.rnc_num
    THEN [inspecoes |-> Append(tbl, rec),
          fotos     |-> ft \o FotoRows(Len(tbl) + 1, images, "abertura", Len(images))]
    ELSE [inspecoes |-> tbl, fotos |-> ft]

\* insert_inspecao: one "with engine.begin()" block; an exception rolls back
insert_inspecao(tbl, ft, rec, images, fail) ==
    LET iid == Len(tbl) + 1      \* last_insert_rowid() of an AUTOINCREMENT id
    IN  IF fail = 0
        THEN [inspecoes |-> Append(tbl, rec),
              fotos     |-> ft \o FotoRows(iid, images, "abertura", Len(images))]
        ELSE [inspecoes |-> tbl, fotos |-> ft]

\* add_photos: one transaction for all the images
add_photos(ft, iid, images, tipo, fail) ==
    IF fail = 0 THEN ft \o FotoRows(iid, images, tipo, Len(images)) ELSE ft

\* fetch_photos: the ids of the rows, ORDER BY id
fetch_photos(ft, iid, tipo) ==
    SelectSeq([i \in 1..Len(ft) |-> i],
              LAMBDA i : ft[i].inspecao_id = iid /\ ft[i].tipo = tipo)

\* a faulty variant: the UPDATE has lost its WHERE clause
encerrar_all_rows(tbl, iid, dt, por, obs, ef) ==
    [i \in 1..Len(tbl) |->
        [tbl[i] EXCEPT !.status = "Encerrada", !.encerrada_em = dt,
                       !.encerrada_por = por, !.encerramento_obs = obs,
                       !.eficacia = ef]]

\* the UPDATE of encerrar_inspecao (no condition on the stored status)
encerrar_inspecao(tbl, iid, dt, por, obs, ef) ==
    [i \in 1..Len(tbl) |->
        IF i = iid
        THEN [tbl[i] EXCEPT !.status = "Encerrada", !.encerrada_em = dt,
                            !.encerrada_por = por, !.encerramento_obs = obs,
                            !.eficacia = ef]
        ELSE tbl[i]]

\* a faulty variant: the reopening clears the closing columns
reabrir_clearing(tbl, iid, dt, por, motivo) ==
    [i \in 1..Len(tbl) |->
        IF i = iid
        THEN [tbl[i] EXCEPT !.status = "Em acao", !.reaberta_em = dt,
                            !.reaberta_por = por, !.reabertura_motivo = motivo,
                            !.encerrada_em = NoTime, !.encerrada_por = NULL,
                            !.encerramento_obs = NULL, !.eficacia = NULL]
        ELSE tbl[i]]

\* the UPDATE of reabrir_inspecao (no condition on the stored status)
reabrir_inspecao(tbl, iid, dt, por, motivo) ==
    [i \in 1..Len(tbl) |->
        IF i = iid
        THEN [tbl[i] EXCEPT !.status = "Em acao", !.reaberta_em = dt,
                            !.reaberta_por = por, !.reabertura_motivo = motivo]
        ELSE tbl[i]]

-----------------------------------------------------------------------------
(* Bulk import. *)

\* exist_map[key]: the id of the last row whose stripped number is key, 0 if
\* none (a dict comprehension keeps the last value of a repeated key)
ExistId(tbl, key) ==
    LET ids == {i \in 1..Len(tbl) : Strip(tbl[i].rnc_num) = key}
    IN  IF ids = {} THEN 0 ELSE SeqMax(ids)

\* rnc_key = str(row.get("rnc_num") or "").strip().  An empty cell is NaN in
\* the frame and gives the key "nan", which no stored number ever equals
\* (read_csv reads the text nan as NaN too); a missing column gives "".
\* Both take the INSERT branch, as the empty key does here.
RncKey(row) == Strip(row.rnc_num)

\* the loop of upsert_from_csv over the rows; exist is the table as read
\* before the loop
RECURSIVE UpsertRows(_, _, _)
UpsertRows(tbl, exist, rows) ==
    IF rows = <<>> THEN tbl
    ELSE LET row == Head(rows)
             key == RncKey(row)
             id  == ExistId(exist, key)
             nxt == IF key # <<>> /\ id # 0
                    THEN [tbl EXCEPT ![id] = row]    \* SET every column but id
                    ELSE Append(tbl, row)
         IN  UpsertRows(nxt, exist, Tail(rows))

upsert_from_csv(tbl, rows) == UpsertRows(tbl, tbl, rows)

-----------------------------------------------------------------------------
(* CSV export, and the reading of an uploaded file. *)

\* the titles that hold a comma
HasComma(t) == t \in {"t,3"}

\* fetch_df: the rows ORDER BY id DESC, each with its id
fetch_df(tbl) ==
    [k \in 1..Len(tbl) |-> [id |-> Len(tbl) + 1 - k, rec |-> tbl[Len(tbl) + 1 - k]]]

\* a text cell as to_csv writes it (None and '' are both the empty cell) and
\* as read_csv reads it (the empty cell is NaN, stored as NULL)
CsvText(v)  == IF v = NULL THEN "" ELSE v
ReadText(c) == IF c = "" THEN NULL ELSE c

\* df.to_csv(index=False, sep=";"): one line per row, its cells split by ';'
to_csv(df) ==
    [k \in 1..Len(df) |->
        LET r == df[k].rec
        IN  [id |-> df[k].id, rnc_num |-> r.rnc_num, data |-> r.data,
             titulo |-> CsvText(r.titulo), status |-> CsvText(r.status),
             encerrada_em |-> r.encerrada_em,
             encerrada_por |-> CsvText(r.encerrada_por),
             encerramento_obs |-> CsvText(r.encerramento_obs),
             eficacia |-> CsvText(r.eficacia),
             reaberta_em |-> r.reaberta_em,
             reaberta_por |-> CsvText(r.reaberta_por),
             reabertura_motivo |-> CsvText(r.reabertura_motivo)]]

\* the fields pd.read_csv(up) finds in a line beyond the first: it splits at
\* ','
Commas(line) == IF HasComma(line.titulo) THEN 1 ELSE 0

\* pd.read_csv(up) raises when a line after the first data line holds more
\* fields than that line; the header of an export holds no comma
ParserError(csv) == \E k \in 2..Len(csv) : Commas(csv[k]) > Commas(csv[1])

\* "try: pd.read_csv(up)  except: pd.read_csv(up, sep=';')": the separator the
\* frame was split by, and the lines
read_csv(csv) == [sep |-> IF ParserError(csv) THEN ";" ELSE ",", lines |-> csv]

\* normalize_df_cols, and the rec of upsert_from_csv (every expected column
\* but id).  A frame split by ',' has none of the expected columns (its one
\* column is named by the whole header line), so each of them is added as
\* None.
normalize_df_cols(df) ==
    [k \in 1..Len(df.lines) |->
        IF df.sep = ","
        THEN Row(NoNum, 0, NULL, NULL)
        ELSE LET c == df.lines[k]
             IN  [rnc_num |-> c.rnc_num, data |-> c.data,
                  titulo |-> ReadText(c.titulo), status |-> ReadText(c.status),
                  encerrada_em |-> c.encerrada_em,
                  encerrada_por |-> ReadText(c.encerrada_por),
                  encerramento_obs |-> ReadText(c.encerramento_obs),
                  eficacia |-> ReadText(c.eficacia),
                  reaberta_em |-> c.reaberta_em,
                  reaberta_por |-> ReadText(c.reaberta_por),
                  reabertura_motivo |-> ReadText(c.reabertura_motivo)]]

\* "Baixar CSV", and the file read back by the import
Reimported(tbl) == normalize_df_cols(read_csv(to_csv(fetch_df(tbl))))

-----------------------------------------------------------------------------
(* Cost codes (PEPs). *)

Range(f) == {f[i] : i \in DOMAIN f}

\* a faulty variant: a plain INSERT into a column that is not UNIQUE
insert_plain(tbl, code) == Append(tbl, code)

\* INSERT OR IGNORE INTO peps (code): the row that would break UNIQUE(code)
\* is skipped, and the statement does not raise
insert_or_ignore(tbl, code) ==
    IF code \in Range(tbl) THEN tbl ELSE Append(tbl, code)

\* codes = [c.strip() for c in codes if c and c.strip()]
Cleaned(codes) ==
    SelectSeq([i \in 1..Len(codes) |-> Strip(codes[i])], LAMBDA c : c # <<>>)

\* the loop of add_peps_bulk: the execute, then ins += 1
RECURSIVE PepLoop(_, _, _)
PepLoop(tbl, codes, ins) ==
    IF codes = <<>> THEN [peps |-> tbl, ins |-> ins]
    ELSE PepLoop(insert_or_ignore(tbl, Head(codes)), Tail(codes), ins + 1)

\* add_peps_bulk: the table after the call, and the value returned
add_peps_bulk(tbl, codes) ==
    IF Cleaned(codes) = <<>> THEN [peps |-> tbl, ins |-> 0]
    ELSE PepLoop(tbl, Cleaned(codes), 0)

\* df_csv["code"].astype(str): an empty cell is NaN, and str(NaN) is "nan"
AsStr(cell) == IF cell = <<>> THEN <<"n", "a", "n">> ELSE cell

-----------------------------------------------------------------------------
(* Inputs. *)

QUALITY_PASS == "qualidade123"
Passwords    == {QUALITY_PASS, "errada"}

\* the options of the selectbox "Verificacao de eficacia" that are drawn
Eficacias == {"A verificar", "Eficaz"}
\* the name a session types into "Encerrada por" / "Reaberta por"
Nomes(s)  == {s}
Obs       == {"obs"}
Motivos   == {"motivo"}

\* files_to_images(uploaded_files): the blobs of an upload
ImageLists == UNION {[1..n -> Blobs] : n \in 0..MaxImgs}

Y24 == Prefix(2024)
Y25 == Prefix(2025)

\* rows a CSV can hold (after normalize_df_cols): a number with a leading
\* blank, a well-formed one, one with a trailing blank, a malformed one,
\* one of another year, one at the edge of three digits, and an empty cell
ImportPool ==
    { Row(<<" ">> \o Y24 \o <<"0", "0", "1">>, 2024, "t2", "Aberta"),
      Row(Y24 \o <<"0", "0", "1">>, 2024, "t2", "Bloqueada"),
      Row(Y24 \o <<"0", "0", "2", " ">>, 2024, "t2", "Aberta"),
      Row(Y24 \o <<"a", "b", "c">>, 0, "t2", NULL),
      Row(Y25 \o <<"0", "0", "5">>, 2025, "t2", "Encerrada"),
      Row(Y24 \o <<"9", "9", "9">>, 2024, "t2", "Aberta"),
      Row(NoNum, 0, "t2", "Aberta") }

ImportFiles == UNION {[1..n -> ImportPool] : n \in 1..MaxRows}

\* what is typed as a PEP, or held by a cell of the column code: a code, the
\* same code between blanks, a blank, nothing, another code
CodePool ==
    { <<"A", "1">>, <<" ", "A", "1", " ">>, <<" ">>, <<>>, <<"B", "2">> }

\* a column that holds a code twice, a blank and another code
RepeatedCodes == << <<"A", "1">>, <<"A", "1">>, <<" ">>, <<"B", "2">> >>

\* the column code of an uploaded CSV
PepFiles == UNION {[1..n -> CodePool] : n \in 1..MaxCodes} \cup {RepeatedCodes}

-----------------------------------------------------------------------------
(* Sessions. *)

NoForm == [op |-> "none", iid |-> 0, ano |-> 0, rnc_num |-> NoNum, imgs |-> <<>>]
NoView == [id |-> 0, status |-> NULL]

\* the row a script run shows: fetch_df() and the row with id = sel_id
Shown(tbl, id) ==
    IF id \in 1..Len(tbl) THEN [id |-> id, status |-> tbl[id].status] ELSE NoView

\* rows and photos that running handlers are still going to insert
PendingRows == Cardinality({t \in Sessions : pc[t] = "insert"})

RECURSIVE SumImgs(_)
SumImgs(S) ==
    IF S = {} THEN 0
    ELSE LET t == CHOOSE x \in S : TRUE
         IN  Len(form[t].imgs) + SumImgs(S \ {t})

RoomForRows(n, cap) == Len(inspecoes) + PendingRows + n <= cap
RoomForFotos(n, cap) == Len(fotos) + SumImgs(Sessions) + n <= cap

Init ==
    /\ inspecoes = <<>>
    /\ fotos = <<>>
    /\ peps = <<>>
    /\ logo = NULL
    /\ is_quality = [s \in Sessions |-> FALSE]
    /\ pc = [s \in Sessions |-> "idle"]
    /\ form = [s \in Sessions |-> NoForm]
    /\ view = [s \in Sessions |-> NoView]
    /\ now = 1
    /\ pep_n = [s \in Sessions |-> 0]

\* button "Entrar como Qualidade"
Entrar(s) ==
    /\ pc[s] = "idle"
    /\ \E pwd \in Passwords :
          is_quality' = [is_quality EXCEPT ![s] = (pwd = QUALITY_PASS) \/ @]
    /\ view' = [view EXCEPT ![s] = Shown(inspecoes, @.id)]
    /\ UNCHANGED <<storeVars, cfgVars, pc, form, now>>

\* button "Sair", drawn only while is_quality
Sair(s) ==
    /\ pc[s] = "idle"
    /\ is_quality[s]
    /\ is_quality' = [is_quality EXCEPT ![s] = FALSE]
    /\ view' = [view EXCEPT ![s] = Shown(inspecoes, @.id)]
    /\ UNCHANGED <<storeVars, cfgVars, pc, form, now>>

\* page "Consultar/Encerrar/Reabrir": a run that shows the row sel_id
Consultar(s) ==
    /\ pc[s] = "idle"
    /\ \E id \in 1..Len(inspecoes) :
          view' = [view EXCEPT ![s] = Shown(inspecoes, id)]
    /\ UNCHANGED <<storeVars, cfgVars, is_quality, pc, form, now>>

\* page "Nova RNC", "Salvar RNC": the number is allocated in a transaction
\* of its own, before the INSERT
NovaRNC_Alocar(s, years, lists, cap, fcap) ==
    /\ pc[s] = "idle"
    /\ is_quality[s]
    /\ \E year \in years, imgs \in lists :
          /\ RoomForRows(1, cap)
          /\ RoomForFotos(Len(imgs), fcap)
          /\ form' = [form EXCEPT ![s] =
                        [op |-> "abertura", iid |-> 0, ano |-> year,
                         rnc_num |-> next_rnc_num_for_date(inspecoes, year),
                         imgs |-> imgs]]
    /\ pc' = [pc EXCEPT ![s] = "insert"]
    /\ view' = [view EXCEPT ![s] = NoView]
    /\ UNCHANGED <<storeVars, cfgVars, is_quality, now>>

\* ... then insert_inspecao(rec, imgs)
NovaRNC_Inserir(s) ==
    /\ pc[s] = "insert"
    /\ \E fail \in Outcomes(form[s].imgs) :
          LET r == insert_inspecao(inspecoes, fotos,
                                   Row(form[s].rnc_num, form[s].ano, "t1", "Aberta"),
                                   form[s].imgs, fail)
          IN  /\ inspecoes' = r.inspecoes
              /\ fotos' = r.fotos
    /\ pc' = [pc EXCEPT ![s] = "idle"]
    /\ form' = [form EXCEPT ![s] = NoForm]
    /\ UNCHANGED <<cfgVars, is_quality, view, now>>

\* datetime.now(): every reading is later than the one before, and the
\* model stops the clock after MaxClock readings
Clock == IF now <= MaxClock THEN {now} ELSE {}

\* "Salvar RNC" with no other session running in between: the allocation
\* and the INSERT, one after the other
SalvarRNC(s, years, lists, cap, fcap) ==
    /\ pc[s] = "idle"
    /\ is_quality[s]
    /\ \E year \in years, imgs \in lists :
          /\ RoomForRows(1, cap)
          /\ RoomForFotos(Len(imgs), fcap)
          /\ \E fail \in Outcomes(imgs) :
                LET num == next_rnc_num_for_date(inspecoes, year)
                    r   == insert_inspecao(inspecoes, fotos,
                                           Row(num, year, "t1", "Aberta"), imgs, fail)
                IN  /\ inspecoes' = r.inspecoes
                    /\ fotos' = r.fotos
    /\ view' = [view EXCEPT ![s] = NoView]
    /\ UNCHANGED <<cfgVars, is_quality, pc, form, now>>

\* form "Encerrar RNC": the button the browser shows is enabled when the row
\* it was drawn from was not 'Encerrada'; the run that handles the click
\* fetches the row again, calls encerrar_inspecao and leaves the page as
\* drawn from the row it fetched
Encerrar(s, lists, fcap) ==
    /\ pc[s] = "idle"
    /\ is_quality[s]
    /\ view[s].id \in 1..Len(inspecoes)
    /\ view[s].status # "Encerrada"
    /\ \E dt \in Clock, por \in Nomes(s), obs \in Obs, ef \in Eficacias,
          imgs \in lists :
          /\ RoomForFotos(Len(imgs), fcap)
          /\ now' = dt + 1
          /\ inspecoes' = encerrar_inspecao(inspecoes, view[s].id, dt, por, obs, ef)
          /\ IF imgs # <<>>
             THEN /\ pc' = [pc EXCEPT ![s] = "fotos"]
                  /\ form' = [form EXCEPT ![s] =
                                [op |-> "encerramento", iid |-> view[s].id,
                                 ano |-> 0, rnc_num |-> NoNum, imgs |-> imgs]]
             ELSE UNCHANGED <<pc, form>>
    /\ view' = [view EXCEPT ![s] = Shown(inspecoes, @.id)]
    /\ UNCHANGED <<fotos, cfgVars, is_quality>>

\* form "Reabrir RNC": enabled when the row drawn was 'Encerrada'
Reabrir(s, lists, fcap) ==
    /\ pc[s] = "idle"
    /\ is_quality[s]
    /\ view[s].id \in 1..Len(inspecoes)
    /\ view[s].status = "Encerrada"
    /\ \E dt \in Clock, por \in Nomes(s), motivo \in Motivos, imgs \in lists :
          /\ RoomForFotos(Len(imgs), fcap)
          /\ now' = dt + 1
          /\ inspecoes' = reabrir_inspecao(inspecoes, view[s].id, dt, por, motivo)
          /\ IF imgs # <<>>
             THEN /\ pc' = [pc EXCEPT ![s] = "fotos"]
                  /\ form' = [form EXCEPT ![s] =
                                [op |-> "reabertura", iid |-> view[s].id,
                                 ano |-> 0, rnc_num |-> NoNum, imgs |-> imgs]]
             ELSE UNCHANGED <<pc, form>>
    /\ view' = [view EXCEPT ![s] = Shown(inspecoes, @.id)]
    /\ UNCHANGED <<fotos, cfgVars, is_quality>>

\* "if images: add_photos(iid, images, tipo)", after the UPDATE has committed
AdicionarFotos(s) ==
    /\ pc[s] = "fotos"
    /\ \E fail \in Outcomes(form[s].imgs) :
          fotos' = add_photos(fotos, form[s].iid, form[s].imgs, form[s].op, fail)
    /\ pc' = [pc EXCEPT ![s] = "idle"]
    /\ form' = [form EXCEPT ![s] = NoForm]
    /\ UNCHANGED <<inspecoes, cfgVars, is_quality, view, now>>

\* page "Importar/Exportar": an uploaded CSV is imported
Importar(s, files, cap) ==
    /\ pc[s] = "idle"
    /\ is_quality[s]
    /\ \E rows \in files :
          /\ RoomForRows(Len(rows), cap)
          /\ inspecoes' = upsert_from_csv(inspecoes, rows)
    /\ view' = [view EXCEPT ![s] = NoView]
    /\ UNCHANGED <<fotos, cfgVars, is_quality, pc, form, now>>

\* page "Importar/Exportar": "Baixar CSV" (drawn when the store is not empty)
\* and the downloaded file uploaded again, nothing else running in between
Reimportar(s, cap) ==
    /\ pc[s] = "idle"
    /\ is_quality[s]
    /\ inspecoes # <<>>
    /\ LET tbl == upsert_from_csv(inspecoes, Reimported(inspecoes))
       IN  /\ Len(tbl) + PendingRows <= cap
           /\ inspecoes' = tbl
    /\ view' = [view EXCEPT ![s] = NoView]
    /\ UNCHANGED <<fotos, cfgVars, is_quality, pc, form, now>>

\* settings_set_logo: INSERT ... ON CONFLICT(key) DO UPDATE SET blob
settings_set_logo(old, image_bytes) == image_bytes

\* sidebar "Logo da empresa": the uploader is drawn only while is_quality
EnviarLogo(s, blobs) ==
    /\ pc[s] = "idle"
    /\ is_quality[s]
    /\ \E up_logo \in blobs : logo' = settings_set_logo(logo, up_logo)
    /\ UNCHANGED <<storeVars, peps, pep_n, sessVars, now>>

\* a faulty variant: the page of PEPs is drawn for a visitor too
ChamarSemPerfil(s, codes) ==
    /\ pc[s] = "idle"
    /\ Len(peps) <= MaxPeps
    /\ LET r == add_peps_bulk(peps, codes)
       IN  /\ peps' = r.peps
           /\ pep_n' = [pep_n EXCEPT ![s] = r.ins]
    /\ UNCHANGED <<storeVars, logo, sessVars, now>>

\* a call add_peps_bulk(codes) made by a page of session s, which keeps the
\* value returned in n
ChamarAddPeps(s, codes) ==
    /\ pc[s] = "idle"
    /\ is_quality[s]
    /\ Len(peps) <= MaxPeps
    /\ LET r == add_peps_bulk(peps, codes)
       IN  /\ peps' = r.peps
           /\ pep_n' = [pep_n EXCEPT ![s] = r.ins]
    /\ UNCHANGED <<storeVars, logo, sessVars, now>>

\* page "Gerenciar PEPs", button "Adicionar PEP"
AdicionarPEP(s, pool) ==
    \E new_pep \in pool :
        /\ Strip(new_pep) # <<>>
        /\ ChamarAddPeps(s, <<Strip(new_pep)>>)

\* page "Gerenciar PEPs", "Importar lista (CSV)"
ImportarPEPs(s, files) ==
    \E cells \in files :
        ChamarAddPeps(s, [i \in 1..Len(cells) |-> AsStr(cells[i])])

-----------------------------------------------------------------------------
(* The application: every handler, every input. *)

Next ==
    \E s \in Sessions :
        \/ Entrar(s)
        \/ Sair(s)
        \/ Consultar(s)
        \/ NovaRNC_Alocar(s, Years, ImageLists, MaxReports, MaxFotos)
        \/ NovaRNC_Inserir(s)
        \/ Encerrar(s, ImageLists, MaxFotos)
        \/ Reabrir(s, ImageLists, MaxFotos)
        \/ AdicionarFotos(s)
        \/ Importar(s, ImportFiles, MaxReports)
        \/ Reimportar(s, MaxReports)
        \/ AdicionarPEP(s, CodePool)
        \/ ImportarPEPs(s, PepFiles)
        \/ EnviarLogo(s, Blobs)

Spec == Init /\ [][Next]_vars

-----------------------------------------------------------------------------
(* Numbering: filing and importing, by concurrent sessions. *)

\* uploads of the filing form: none, or two photos
NumLists == {<<>>, <<"b1", "b2">>}

NextNum ==
    \E s \in Sessions :
        \/ Entrar(s)
        \/ NovaRNC_Alocar(s, Years, NumLists, MaxReports, MaxFotos)
        \/ NovaRNC_Inserir(s)
        \/ Importar(s, ImportFiles, MaxReports)

SpecNum == Init /\ [][NextNum]_vars

-----------------------------------------------------------------------------
(* Lifecycle: filing, closing and reopening, by concurrent sessions. *)

LifeLists == {<<>>, <<"b1">>}

\* a one-row CSV that restores a report of an earlier year
LifeFiles == {<<Row(Y25 \o <<"0", "0", "5">>, 2025, "t2", "Encerrada")>>}

NextLife ==
    \E s \in Sessions :
        \/ Entrar(s)
        \/ Sair(s)
        \/ Consultar(s)
        \/ NovaRNC_Alocar(s, {2024}, LifeLists, MaxLifeReports, MaxLifeFotos)
        \/ NovaRNC_Inserir(s)
        \/ Encerrar(s, LifeLists, MaxLifeFotos)
        \/ Reabrir(s, LifeLists, MaxLifeFotos)
        \/ AdicionarFotos(s)
        \/ Importar(s, LifeFiles, MaxLifeReports)

SpecLife == Init /\ [][NextLife]_vars

-----------------------------------------------------------------------------
(* Sequential filing: each "Salvar RNC" runs to its end before the next     *)
(* starts, from a store that holds up to BaseLen imported rows.             *)

InitSeq ==
    /\ inspecoes \in UNION {[1..n -> ImportPool] : n \in 0..BaseLen}
    /\ fotos = <<>>
    /\ peps = <<>>
    /\ logo = NULL
    /\ is_quality = [s \in Sessions |-> FALSE]
    /\ pc = [s \in Sessions |-> "idle"]
    /\ form = [s \in Sessions |-> NoForm]
    /\ view = [s \in Sessions |-> NoView]
    /\ now = 1
    /\ pep_n = [s \in Sessions |-> 0]

NextSeq ==
    \E s \in Sessions :
        \/ Entrar(s)
        \/ SalvarRNC(s, Years, NumLists, BaseLen + MaxSeqFiles, MaxFotos)

SpecSeq == InitSeq /\ [][NextSeq]_vars

-----------------------------------------------------------------------------
(* Export and re-import: a store of filed and imported reports is exported  *)
(* and the export is imported back.                                        *)

\* one-row CSVs: a number some filed report holds, with a comma in the
\* title; the same number after a blank; a report of another year
TripFiles ==
    { <<Row(Y24 \o <<"0", "0", "1">>, 2024, "t,3", "Aberta")>>,
      <<Row(<<" ">> \o Y24 \o <<"0", "0", "1">>, 2024, "t2", "Aberta")>>,
      <<Row(Y25 \o <<"0", "0", "5">>, 2025, "t2", "Encerrada")>> }

NextTrip ==
    \E s \in Sessions :
        \/ Entrar(s)
        \/ NovaRNC_Alocar(s, {2024}, {<<>>}, MaxTripReports, 0)
        \/ NovaRNC_Inserir(s)
        \/ Importar(s, TripFiles, MaxTripReports)
        \/ Reimportar(s, MaxTripReports)

SpecTrip == Init /\ [][NextTrip]_vars

-----------------------------------------------------------------------------
(* Cost codes: the page "Gerenciar PEPs", by concurrent sessions. *)

NextPeps ==
    \E s \in Sessions :
        \/ Entrar(s)
        \/ Sair(s)
        \/ AdicionarPEP(s, CodePool)
        \/ ImportarPEPs(s, PepFiles)

SpecPeps == Init /\ [][NextPeps]_vars

-----------------------------------------------------------------------------
(* Profiles: every handler, for a store of one report, one photo and two   *)
(* codes, by sessions that enter and leave the Quality profile.            *)

AuthLists == {<<>>, <<"b1">>}

StepAuth(s) ==
    \/ Entrar(s)
    \/ Sair(s)
    \/ Consultar(s)
    \/ NovaRNC_Alocar(s, {2024}, {<<>>}, MaxAuthReports, MaxAuthFotos)
    \/ NovaRNC_Inserir(s)
    \/ Encerrar(s, AuthLists, MaxAuthFotos)
    \/ Reabrir(s, {<<>>}, MaxAuthFotos)
    \/ AdicionarFotos(s)
    \/ Importar(s, LifeFiles, MaxAuthReports)
    \/ AdicionarPEP(s, {<<"A", "1">>})
    \/ ImportarPEPs(s, {<< <<"B", "2">> >>})
    \/ EnviarLogo(s, {"b1"})

NextAuth == \E s \in Sessions : StepAuth(s)

SpecAuth == Init /\ [][NextAuth]_vars

-----------------------------------------------------------------------------
(* Properties. *)

\* "Y-" written out
Ano(y) == IF y = 2024 THEN <<"2", "0", "2", "4", "-">> ELSE <<"2", "0", "2", "5", "-">>

\* v, trimmed, is "Y-" followed by one or more digits
TrimmedMatch(v, y) ==
    LET t == Strip(v)
    IN  /\ Len(t) > 5
        /\ SubSeq(t, 1, 5) = Ano(y)
        /\ \A i \in 6..Len(t) : IsDigit(t[i])

SuffixOf(v) == LET t == Strip(v) IN StrToInt(SubSeq(t, 6, Len(t)))

MaxOf(S) == IF S = {} THEN 0 ELSE CHOOSE m \in S : \A x \in S : x <= m

Numbers(tbl) == {tbl[i].rnc_num : i \in 1..Len(tbl)}

Holders(tbl, v) == {i \in 1..Len(tbl) : tbl[i].rnc_num = v}

\* C1: no two reports carry the same report number.
C1_NumbersUnique ==
    \A i, j \in 1..Len(inspecoes) :
        (i # j /\ inspecoes[i].rnc_num # NoNum)
            => inspecoes[i].rnc_num # inspecoes[j].rnc_num

\* the rows filed through the form (title "t1") for year y, in id order;
\* the rows the store started with are imported ones (title "t2")
FiledFor(y) ==
    SelectSeq(inspecoes, LAMBDA r : r.titulo = "t1" /\ r.data = y)

NoneNumberedFor(y) ==
    \A i \in 1..Len(inspecoes) :
        inspecoes[i].titulo = "t2" => ~TrimmedMatch(inspecoes[i].rnc_num, y)

\* C2: from a store with no report numbered for Y, N filings run one after
\* another get Y-001, Y-002, ..., Y-00N in that order.
C2_Sequential ==
    \A y \in Years :
        NoneNumberedFor(y) =>
            \A k \in 1..Len(FiledFor(y)) :
                /\ k <= 9
                /\ FiledFor(y)[k].rnc_num = Ano(y) \o <<"0", "0", Digits[k + 1]>>

C2_Witness ==
    /\ NoneNumberedFor(2024)
    /\ \E i \in 1..Len(inspecoes) :
          inspecoes[i].titulo = "t2" /\ StartsWith(inspecoes[i].rnc_num, Ano(2024))
    /\ Len(FiledFor(2024)) >= 3

\* the number a session has just been given, against the store it was
\* computed from
Allocated(s, m) == form'[s].rnc_num = Ano(form'[s].ano) \o Fmt03d(m + 1)

Allocates(s) == pc[s] = "idle" /\ pc'[s] = "insert"

\* C3 as stated: the allocator returns Y-(m+1), m the largest suffix over ALL
\* stored numbers that match ^Y-(digits)$ after trimming.
C3_AllTrimmed ==
    [][\A s \in Sessions :
          Allocates(s) =>
            Allocated(s, MaxOf({SuffixOf(v) :
                v \in {w \in Numbers(inspecoes) : TrimmedMatch(w, form'[s].ano)}}))]_vars

\* C3 amended: the allocator returns Y-(m+1), m the largest suffix over the
\* stored numbers that begin with "Y-" and match ^Y-(digits)$ after trimming;
\* other numbers never change the result.
C3_PrefixedTrimmed ==
    [][\A s \in Sessions :
          Allocates(s) =>
            Allocated(s, MaxOf({SuffixOf(v) :
                v \in {w \in Numbers(inspecoes) :
                         /\ StartsWith(w, Ano(form'[s].ano))
                         /\ TrimmedMatch(w, form'[s].ano)}}))]_vars

C3_Witness ==
    \E s \in Sessions :
        /\ pc[s] = "insert"
        /\ form[s].rnc_num = Ano(2024) \o <<"0", "0", "2">>
        /\ {Ano(2024) \o <<"0", "0", "1">>, Ano(2024) \o <<"a", "b", "c">>,
            Ano(2025) \o <<"0", "0", "5">>} \subseteq Numbers(inspecoes)

\* C9: the INSERT of a filing stores the report (status Aberta) together with
\* every opening photo, owned by the new id, or stores nothing at all.
C9_CreateAtomic ==
    [][\A s \in Sessions :
          (pc[s] = "insert" /\ pc'[s] = "idle") =>
            \/ inspecoes' = inspecoes /\ fotos' = fotos
            \/ /\ Len(inspecoes') = Len(inspecoes) + 1
               /\ SubSeq(inspecoes', 1, Len(inspecoes)) = inspecoes
               /\ inspecoes'[Len(inspecoes')].status = "Aberta"
               /\ inspecoes'[Len(inspecoes')].rnc_num = form[s].rnc_num
               /\ Len(fotos') = Len(fotos) + Len(form[s].imgs)
               /\ SubSeq(fotos', 1, Len(fotos)) = fotos
               /\ \A k \in 1..Len(form[s].imgs) :
                     fotos'[Len(fotos) + k] =
                        [inspecao_id |-> Len(inspecoes) + 1,
                         blob |-> form[s].imgs[k], tipo |-> "abertura"]]_vars

C9_Witness ==
    \E i \in 1..Len(inspecoes) :
        /\ inspecoes[i].status = "Aberta"
        /\ inspecoes[i].titulo = "t1"
        /\ Len(fetch_photos(fotos, i, "abertura")) = 2

\* a step of the bulk import: the table changes and no handler moves
ImportStep == inspecoes' # inspecoes /\ pc' = pc

\* C10: an import never leaves two reports with a number that a single
\* existing report had before the import.
C10_NoSecondHolder ==
    [][ImportStep =>
          \A v \in Numbers(inspecoes) :
              (v # NoNum /\ Cardinality(Holders(inspecoes, v)) = 1)
                  => Cardinality(Holders(inspecoes', v)) <= 1]_vars

\* the row a session's form is about, as stored when the form is submitted
Target(s) == inspecoes[view[s].id]

Closes(s)  == Encerrar(s, LifeLists, MaxLifeFotos)
Reopens(s) == Reabrir(s, LifeLists, MaxLifeFotos)

\* the add_photos of a handler of kind op commits
StoresFotos(s, op) ==
    pc[s] = "fotos" /\ pc'[s] = "idle" /\ form[s].op = op /\ fotos' # fotos

OtherRowsKept(i) ==
    /\ Len(inspecoes') = Len(inspecoes)
    /\ \A j \in 1..Len(inspecoes) : j # i => inspecoes'[j] = inspecoes[j]

ClosingKept(i) ==
    /\ inspecoes'[i].encerrada_em = inspecoes[i].encerrada_em
    /\ inspecoes'[i].encerrada_por = inspecoes[i].encerrada_por
    /\ inspecoes'[i].encerramento_obs = inspecoes[i].encerramento_obs
    /\ inspecoes'[i].eficacia = inspecoes[i].eficacia

\* C4: a Reopen submitted for a report whose stored status is not Encerrada
\* is rejected: it changes no row and attaches no evidence.
C4_ReopenRejected ==
    [][\A s \in Sessions :
          (Reopens(s) /\ Target(s).status # "Encerrada")
              => (inspecoes' = inspecoes /\ pc'[s] = "idle")]_vars

\* C5: a Close submitted for a report whose stored status is already
\* Encerrada changes none of its closing columns and attaches no evidence.
C5_CloseIgnored ==
    [][\A s \in Sessions :
          (Closes(s) /\ Target(s).status = "Encerrada")
              => (ClosingKept(view[s].id) /\ pc'[s] = "idle")]_vars

\* C6: a Close of a report that is not Encerrada sets its status to Encerrada
\* and records the timestamp, actor, notes and verdict of the call; the
\* evidence of a Close that runs to its end is listed under encerramento for
\* that report, and under no other category and no other report.
C6_Close ==
    [][\A s \in Sessions :
          /\ (Closes(s) /\ Target(s).status # "Encerrada") =>
                LET i == view[s].id
                IN  /\ inspecoes'[i].status = "Encerrada"
                    /\ inspecoes'[i].encerrada_em = now
                    /\ inspecoes'[i].encerrada_por \in Nomes(s)
                    /\ inspecoes'[i].encerramento_obs \in Obs
                    /\ inspecoes'[i].eficacia \in Eficacias
                    /\ OtherRowsKept(i)
                    /\ fotos' = fotos
                    /\ pc'[s] = "fotos" =>
                          (form'[s].op = "encerramento" /\ form'[s].iid = i)
          /\ StoresFotos(s, "encerramento") =>
                /\ Len(fotos') = Len(fotos) + Len(form[s].imgs)
                /\ SubSeq(fotos', 1, Len(fotos)) = fotos
                /\ \A k \in 1..Len(form[s].imgs) :
                      LET id == Len(fotos) + k
                      IN  /\ fotos'[id].blob = form[s].imgs[k]
                          /\ \A j \in 1..Len(inspecoes),
                                t \in {"abertura", "encerramento", "reabertura"} :
                                (\E n \in 1..Len(fetch_photos(fotos', j, t)) :
                                    fetch_photos(fotos', j, t)[n] = id)
                                  <=> (j = form[s].iid /\ t = "encerramento")]_vars

C6_Witness ==
    /\ Len(inspecoes) = 2
    /\ \E i \in 1..2 :
          /\ inspecoes[i].status = "Encerrada"
          /\ inspecoes[i].eficacia = "Eficaz"
          /\ fetch_photos(fotos, i, "encerramento") # <<>>
          /\ inspecoes[3 - i].status = "Aberta"

\* C7: a Reopen of a report that is Encerrada sets its status to 'Em acao',
\* records the reopening timestamp, actor and reason, and leaves the closing
\* columns and every photo already stored as they were.
C7_Reopen ==
    [][\A s \in Sessions :
          /\ (Reopens(s) /\ Target(s).status = "Encerrada") =>
                LET i == view[s].id
                IN  /\ inspecoes'[i].status = "Em acao"
                    /\ inspecoes'[i].reaberta_em = now
                    /\ inspecoes'[i].reaberta_por \in Nomes(s)
                    /\ inspecoes'[i].reabertura_motivo \in Motivos
                    /\ ClosingKept(i)
                    /\ OtherRowsKept(i)
                    /\ fotos' = fotos
          /\ StoresFotos(s, "reabertura") =>
                /\ inspecoes' = inspecoes
                /\ SubSeq(fotos', 1, Len(fotos)) = fotos]_vars

C7_Witness ==
    \E i \in 1..Len(inspecoes) :
        /\ inspecoes[i].status = "Em acao"
        /\ inspecoes[i].encerrada_em # NoTime
        /\ inspecoes[i].encerrada_por # NULL
        /\ inspecoes[i].reaberta_em > inspecoes[i].encerrada_em
        /\ fetch_photos(fotos, i, "encerramento") # <<>>
        /\ fetch_photos(fotos, i, "reabertura") # <<>>

\* C8: no state shows the UPDATE of a Close or Reopen committed while
\* evidence passed to the same call is not stored yet.
C8_NoPartialState ==
    \A s \in Sessions :
        ~ /\ pc[s] = "fotos"
          /\ form[s].imgs # <<>>
          /\ \/ /\ form[s].op = "encerramento"
                /\ inspecoes[form[s].iid].encerrada_por \in Nomes(s)
             \/ /\ form[s].op = "reabertura"
                /\ inspecoes[form[s].iid].reaberta_por \in Nomes(s)

\* C11: exporting every report and importing the export back leaves the
\* number of reports unchanged, leaves every field of every report
\* unchanged, and brings in no report number that was not stored before.
C11_RoundTrip ==
    [][\A s \in Sessions :
          Reimportar(s, MaxTripReports)
              => /\ Len(inspecoes') = Len(inspecoes)
                 /\ \A i \in 1..Len(inspecoes) : inspecoes'[i] = inspecoes[i]
                 /\ Numbers(inspecoes') \subseteq Numbers(inspecoes)]_vars

\* C12: no step changes the id or the stored number of a report that
\* exists: every row keeps its place in the table and its rnc_num.
C12_IdAndNumberKept ==
    [][\A i \in 1..Len(inspecoes) :
          /\ i <= Len(inspecoes')
          /\ inspecoes'[i].rnc_num = inspecoes[i].rnc_num]_vars

\* the values of the column status that File, Close and Reopen write
LifecycleStatus == {"Aberta", "Encerrada", "Em acao"}

\* C13: the status of a report that exists changes only in a step that is
\* the Close or the Reopen of that report, and every stored status is Open,
\* Closed or In-Action.
C13_StatusByLifecycle ==
    [][/\ \A i \in 1..Len(inspecoes) :
             inspecoes'[i].status # inspecoes[i].status
                 => \E s \in Sessions :
                       (Closes(s) \/ Reopens(s)) /\ view[s].id = i
       /\ \A i \in 1..Len(inspecoes') :
             inspecoes'[i].status \in LifecycleStatus]_vars

\* the lists of candidates a call of add_peps_bulk can be given
Candidates ==
    UNION {[1..n -> {AsStr(c) : c \in CodePool}] : n \in 0..MaxCodes}
        \cup {RepeatedCodes}

\* the candidates of a list, trimmed, without the empty ones
TrimmedCodes(codes) == {Strip(codes[i]) : i \in 1..Len(codes)} \ {<<>>}

\* C14: the table of codes never holds a code twice, never holds an empty or
\* blank code, and every call of add_peps_bulk leaves it holding what it
\* held plus the trimmed non-empty candidates of the call; a candidate that
\* is stored already does not make the call fail.
C14_CodesAreASet ==
    [][/\ \A i, j \in 1..Len(peps') : i # j => peps'[i] # peps'[j]
       /\ \A i \in 1..Len(peps') : Strip(peps'[i]) # <<>>
       /\ \A s \in Sessions, codes \in Candidates :
             ChamarAddPeps(s, codes)
                 => Range(peps') = Range(peps) \cup TrimmedCodes(codes)]_vars

\* [A1, A1, blank, B2] was submitted: the call made three attempts and the
\* table holds the two codes
C14_Witness ==
    /\ Len(peps) = 2
    /\ Range(peps) = {<<"A", "1">>, <<"B", "2">>}
    /\ \E s \in Sessions : pep_n[s] = 3

\* C15: the value add_peps_bulk returns is the number of codes the call
\* inserted (0 when its one candidate is stored already).
C15_ReturnsInserted ==
    [][\A s \in Sessions, codes \in Candidates :
          ChamarAddPeps(s, codes) => pep_n'[s] = Len(peps') - Len(peps)]_vars

\* session s holds a number for year y that it has allocated and not yet
\* inserted, and no report carries that number yet
HoldsFresh(s, y) ==
    /\ pc[s] = "insert"
    /\ form[s].ano = y
    /\ form[s].rnc_num \notin Numbers(inspecoes)

\* C16: two filings of the same year that have both allocated before either
\* has inserted hold the same number, and the INSERT of a filing goes
\* through whatever numbers the store holds (with no photo to store, nothing
\* else can fail): the store ends up with two reports of the same number.
C16_RaceDuplicates ==
    [][\A s \in Sessions :
          /\ \A t \in Sessions \ {s}, y \in Years :
                (HoldsFresh(s, y) /\ HoldsFresh(t, y))
                    => form[s].rnc_num = form[t].rnc_num
          /\ (pc[s] = "insert" /\ pc'[s] = "idle" /\ form[s].imgs = <<>>)
                => inspecoes' =
                     Append(inspecoes,
                            Row(form[s].rnc_num, form[s].ano, "t1", "Aberta"))]_vars

\* two reports filed through the form carry the same number
C16_Witness ==
    \E i, j \in 1..Len(inspecoes) :
        /\ i < j
        /\ inspecoes[i].titulo = "t1" /\ inspecoes[j].titulo = "t1"
        /\ inspecoes[i].rnc_num = inspecoes[j].rnc_num
        /\ inspecoes[i].data = inspecoes[j].data

\* C17: a step taken by a session whose is_quality is false changes no
\* report, no photo, no cost code and not the logo; every step that changes
\* one of them is taken by a session whose is_quality is true.
C17_VisitorsChangeNothing ==
    [][/\ \A s \in Sessions :
             (~is_quality[s] /\ StepAuth(s))
                 => UNCHANGED <<inspecoes, fotos, peps, logo>>
       /\ <<inspecoes, fotos, peps, logo>>' # <<inspecoes, fotos, peps, logo>>
             => \E s \in Sessions : is_quality[s] /\ StepAuth(s)]_vars

\* a visitor looks at a report that is not closed, in a store that holds
\* a report, a code and a logo
C17_Witness ==
    \E s \in Sessions :
        /\ ~is_quality[s]
        /\ view[s].id \in 1..Len(inspecoes)
        /\ view[s].status # "Encerrada"
        /\ peps # <<>>
        /\ logo # NULL

====
